---- MODULE Spec2Model ----
(***************************************************************************)
(* A model of the safety-and-security gating layer of the store chatbot:   *)
(* the /ingest flow with its document verification gate, the /ask flow     *)
(* with safety classification, policy response and escalation, and the     *)
(* confidential reporting service.                                         *)
(*                                                                         *)
(* Text is abstracted by what the rule tables see of it: a document is a   *)
(* sequence of fragments, each tagged with the rule class it matches; a    *)
(* message is the set of rule groups it matches.                           *)
(***************************************************************************)
EXTENDS Integers, Sequences, FiniteSets, TLC

\* ---------------------------------------------------------------- bounds

\* Longest document, in fragments.
MaxDocLen == 2

\* ------------------------------------------------- document verification

\* A fragment of document text, named by the rule class whose pattern it
\* matches ("clean" matches none).  The three social-engineering classes
\* are the patterns whose text holds 'credential'/'password', those holding
\* 'urgent'/'immediate', and the rest.
Marks ==
    {"clean", "inject", "se_credential", "se_urgent", "se_other",
     "cyber", "malware", "pii", "offensive", "policy"}

Docs == UNION {[1..n -> Marks] : n \in 0..MaxDocLen}

ThreatSeverity == {"NONE", "LOW", "MEDIUM", "HIGH", "CRITICAL"}

\* severity_scores of _calculate_overall_severity
SeverityScore(s) ==
    CASE s = "NONE" -> 0
      [] s = "LOW" -> 1
      [] s = "MEDIUM" -> 2
      [] s = "HIGH" -> 3
      [] s = "CRITICAL" -> 4

\* One scan: every match of the rule class yields one ThreatDetection.
ScanFor(content, mark, cat, sev) ==
    LET hits == SelectSeq(content, LAMBDA m : m = mark)
    IN  [i \in 1..Len(hits) |->
            [category |-> cat, severity |-> sev, pattern |-> mark]]

ScanPromptInjection(content) ==
    ScanFor(content, "inject", "PROMPT_INJECTION", "CRITICAL")

\* severity from the pattern's own text: 'credential' or 'password' in it
\* gives CRITICAL, else 'urgent' or 'immediate' gives HIGH, else MEDIUM
ScanSocialEngineering(content) ==
    LET se == SelectSeq(content,
                 LAMBDA m : m \in {"se_credential", "se_urgent", "se_other"})
    IN  [i \in 1..Len(se) |->
            [category |-> "SOCIAL_ENGINEERING",
             severity |-> IF se[i] = "se_credential" THEN "CRITICAL"
                          ELSE IF se[i] = "se_urgent" THEN "HIGH"
                          ELSE "MEDIUM",
             pattern |-> se[i]]]

ScanCybersecurityThreats(content) ==
    ScanFor(content, "cyber", "CYBERSECURITY_THREAT", "CRITICAL")

ScanMalwareIndicators(content) ==
    ScanFor(content, "malware", "MALWARE_INDICATORS", "HIGH")

ScanPiiExposure(content) ==
    ScanFor(content, "pii", "PII_EXPOSURE", "HIGH")

ScanOffensiveContent(content) ==
    ScanFor(content, "offensive", "OFFENSIVE_CONTENT", "MEDIUM")

ScanPolicyViolations(content) ==
    ScanFor(content, "policy", "POLICY_VIOLATION", "MEDIUM")

\* _llm_semantic_verification is a placeholder that adds nothing; main.py
\* builds the verifier with use_llm_verification=False.
LlmSemanticVerification(content, threats) == <<>>

use_llm_verification == FALSE

\* The severity of the first detection instead of the highest.
CalculateOverallSeverity_First(threats) ==
    IF threats = <<>> THEN "NONE" ELSE threats[1].severity

\* max over severity_scores, mapped back to its severity
CalculateOverallSeverity(threats) ==
    IF threats = <<>> THEN "NONE"
    ELSE LET scores == {SeverityScore(threats[i].severity) :
                            i \in 1..Len(threats)}
             max_severity == CHOOSE m \in scores : \A x \in scores : x <= m
         IN  CHOOSE s \in ThreatSeverity : SeverityScore(s) = max_severity

IsSafe(threats) ==
    \/ Len(threats) = 0
    \/ \A i \in 1..Len(threats) : threats[i].severity \in {"NONE", "LOW"}

AllowIngestion(is_safe, overall_severity) ==
    is_safe /\ overall_severity \notin {"HIGH", "CRITICAL"}

VerifyDocument(content) ==
    LET scanned == ScanPromptInjection(content)
                   \o ScanSocialEngineering(content)
                   \o ScanCybersecurityThreats(content)
                   \o ScanMalwareIndicators(content)
                   \o ScanPiiExposure(content)
                   \o ScanOffensiveContent(content)
                   \o ScanPolicyViolations(content)
        threats == IF use_llm_verification /\ scanned # <<>>
                   THEN scanned \o LlmSemanticVerification(content, scanned)
                   ELSE scanned
        overall_severity == CalculateOverallSeverity(threats)
        is_safe == IsSafe(threats)
    IN  [is_safe |-> is_safe,
         threats_detected |-> threats,
         overall_severity |-> overall_severity,
         allow_ingestion |-> AllowIngestion(is_safe, overall_severity)]

\* ------------------------------------------------- safety classification

\* Most rule groups a message matches at once.
MaxMsgFeatures == 2

\* What the rule tables see of a message: the self-harm and harm-to-others
\* patterns it matches (by index in their lists), and whether it matches a
\* workplace-violence, distress or profanity pattern, holds an immediacy
\* word, holds an ambiguous phrase, matches an infrastructure pattern.
\* "going_to_hurt" is the phrase "going to hurt": the first alternative of
\* _harm_others_patterns[1], which holds the immediacy word "going to".
SelfHarmPatterns == {"self_harm_0", "self_harm_1", "self_harm_2", "self_harm_3"}

HarmOthersPatterns ==
    {"harm_others_0", "harm_others_1", "harm_others_2", "harm_others_3"}

\* _self_harm_patterns[-2:] + _harm_others_patterns[:2]
CriticalPatterns ==
    {"self_harm_2", "self_harm_3", "harm_others_0", "harm_others_1"}

MsgFeatures ==
    SelfHarmPatterns \cup HarmOthersPatterns \cup
    {"workplace_violence", "distress", "profanity", "immediacy",
     "ambiguous", "infrastructure", "going_to_hurt"}

Messages == {m \in SUBSET MsgFeatures : Cardinality(m) <= MaxMsgFeatures}

NoneFound == [none |-> TRUE]

SafetyClassification(cat, sev, conf, patterns, esc, reasoning) ==
    [category |-> cat, severity |-> sev, confidence |-> conf,
     detected_patterns |-> patterns, requires_escalation |-> esc,
     reasoning |-> reasoning]

\* re.search over _harm_others_patterns: the patterns the message matches.
HarmOthersFound(message) ==
    (message \cap HarmOthersPatterns)
        \cup (IF "going_to_hurt" \in message THEN {"harm_others_1"} ELSE {})

\* any(word in message for word in immediate_words)
HasImmediacy(message) ==
    "immediacy" \in message \/ "going_to_hurt" \in message

\* An imminent-danger check that never finds anything.
CheckImminentDanger_Never(message) == NoneFound

\* Confidence is kept in hundredths.
CheckImminentDanger(message) ==
    LET patterns_found ==
            ((message \cap SelfHarmPatterns) \cup HarmOthersFound(message))
                \cap CriticalPatterns
        has_immediacy == HasImmediacy(message)
    IN  IF patterns_found # {} /\ has_immediacy
        THEN SafetyClassification("IMMINENT_DANGER", "CRITICAL", 90,
                 patterns_found, TRUE, "immediate threat")
        ELSE NoneFound

CheckHarmToOthers(message) ==
    LET patterns_found ==
            HarmOthersFound(message) \cup (message \cap {"workplace_violence"})
    IN  IF patterns_found # {}
        THEN SafetyClassification("HARM_TO_OTHERS_RISK", "CRITICAL", 85,
                 patterns_found, TRUE, "threat to others")
        ELSE NoneFound

CheckSelfHarm(message) ==
    LET patterns_found == message \cap SelfHarmPatterns
    IN  IF patterns_found # {}
        THEN SafetyClassification("SELF_HARM_RISK",
                 IF Cardinality(patterns_found) > 1 THEN "CRITICAL" ELSE "HIGH",
                 85, patterns_found, TRUE, "self-harm ideation")
        ELSE NoneFound

CheckEmotionalDistress(message) ==
    IF "distress" \in message
    THEN SafetyClassification("EMOTIONAL_DISTRESS", "MEDIUM", 75,
             {"distress"}, TRUE, "distress signals")
    ELSE NoneFound

CheckProfanity(message) ==
    IF "profanity" \in message
    THEN SafetyClassification("PROFANITY_ONLY", "LOW", 95,
             {"profanity"}, FALSE, "inappropriate language")
    ELSE NoneFound

NeedsSemanticAnalysis(message) == "ambiguous" \in message

\* main.py: SafetyClassifier(project_id=..., use_llm_classification=True)
use_llm_classification == TRUE

SafeDefault ==
    SafetyClassification("SAFE_OPERATIONAL", "LOW", 95, {}, FALSE,
        "No safety concerns detected")

\* The checks taken in the opposite order.
PatternClassify_Reversed(message) ==
    IF CheckProfanity(message) # NoneFound
        THEN CheckProfanity(message)
    ELSE IF CheckEmotionalDistress(message) # NoneFound
        THEN CheckEmotionalDistress(message)
    ELSE IF CheckSelfHarm(message) # NoneFound
        THEN CheckSelfHarm(message)
    ELSE IF CheckHarmToOthers(message) # NoneFound
        THEN CheckHarmToOthers(message)
    ELSE IF CheckImminentDanger(message) # NoneFound
        THEN CheckImminentDanger(message)
    ELSE NoneFound

\* classify up to the semantic fallback: the first check that finds
\* something decides; NoneFound when all five found nothing.
PatternClassify(message) ==
    IF CheckImminentDanger(message) # NoneFound
        THEN CheckImminentDanger(message)
    ELSE IF CheckHarmToOthers(message) # NoneFound
        THEN CheckHarmToOthers(message)
    ELSE IF CheckSelfHarm(message) # NoneFound
        THEN CheckSelfHarm(message)
    ELSE IF CheckEmotionalDistress(message) # NoneFound
        THEN CheckEmotionalDistress(message)
    ELSE IF CheckProfanity(message) # NoneFound
        THEN CheckProfanity(message)
    ELSE NoneFound

\* category_map of _llm_classify
CategoryWords ==
    {"safe_operational", "profanity_only", "emotional_distress",
     "self_harm_risk", "harm_to_others_risk", "imminent_danger"}

CategoryOfWord(w) ==
    CASE w = "safe_operational" -> "SAFE_OPERATIONAL"
      [] w = "profanity_only" -> "PROFANITY_ONLY"
      [] w = "emotional_distress" -> "EMOTIONAL_DISTRESS"
      [] w = "self_harm_risk" -> "SELF_HARM_RISK"
      [] w = "harm_to_others_risk" -> "HARM_TO_OTHERS_RISK"
      [] w = "imminent_danger" -> "IMMINENT_DANGER"
      [] OTHER -> "SAFE_OPERATIONAL"

\* severity_map of _llm_classify
LlmSeverity(cat) ==
    CASE cat = "SAFE_OPERATIONAL" -> "LOW"
      [] cat = "PROFANITY_ONLY" -> "LOW"
      [] cat = "EMOTIONAL_DISTRESS" -> "MEDIUM"
      [] cat = "SELF_HARM_RISK" -> "HIGH"
      [] cat = "HARM_TO_OTHERS_RISK" -> "CRITICAL"
      [] cat = "IMMINENT_DANGER" -> "CRITICAL"

\* The text the model answers with, as the three regular expressions see
\* it: the word after "CATEGORY:" (lower-cased; "no_match" when the
\* expression finds none) and the number after "CONFIDENCE:" (absent, a
\* number, or dots and digits float() rejects).
LlmReplies ==
    [category : CategoryWords \cup {"some_other_word", "no_match"},
     confidence : {"absent", "number", "malformed"}]

\* The except branch of _llm_classify.
LlmErrorClassification ==
    SafetyClassification("EMOTIONAL_DISTRESS", "MEDIUM", 50,
        {"llm_error_conservative"}, TRUE,
        "LLM classification failed; conservative classification applied")

\* The fallback after the try block.
LlmInconclusive ==
    SafetyClassification("SAFE_OPERATIONAL", "LOW", 60, {}, FALSE,
        "LLM classification inconclusive")

\* _llm_classify once generate_content has answered.
LlmParse(reply) ==
    IF reply.category # "no_match"
    THEN IF reply.confidence = "malformed"
         THEN LlmErrorClassification
         ELSE LET category == CategoryOfWord(reply.category)
              IN  SafetyClassification(category, LlmSeverity(category),
                      IF reply.confidence = "number" THEN 80 ELSE 70,
                      {"llm_semantic_analysis"},
                      category \notin {"SAFE_OPERATIONAL", "PROFANITY_ONLY"},
                      "LLM Analysis")
    ELSE LlmInconclusive

\* What classify returns given the result of _llm_classify.
AfterLlmCheck(llm_check) ==
    IF llm_check.category # "SAFE_OPERATIONAL" THEN llm_check ELSE SafeDefault

\* ------------------------------------------------------- policy engine

\* The fields of the SafetyResponse dataclass.
SafetyResponseFields ==
    {"message", "resources", "allow_continuation", "requires_escalation",
     "escalation_priority", "metadata"}

SafetyResponse(message, resources, cont, esc, priority) ==
    [message |-> message, resources |-> resources,
     allow_continuation |-> cont, requires_escalation |-> esc,
     escalation_priority |-> priority]

\* A policy that never pauses question answering.
GenerateResponse_AlwaysContinue(c) ==
    {SafetyResponse("message", <<>>, TRUE, FALSE, "null")}

\* generate_response: every response it can return for the classification
\* (the profanity redirect is drawn by random.choice from three messages).
GenerateResponse(c) ==
    CASE c.category = "SAFE_OPERATIONAL" ->
            {SafetyResponse("", <<>>, TRUE, FALSE, "null")}
      [] c.category = "PROFANITY_ONLY" ->
            {SafetyResponse(m, <<>>, TRUE, FALSE, "null") :
                m \in {"redirect_1", "redirect_2", "redirect_3"}}
      [] c.category = "EMOTIONAL_DISTRESS" ->
            {SafetyResponse("distress_message",
                <<"mental_health", "hr_ethics">>, FALSE, TRUE, "MEDIUM")}
      [] c.category = "SELF_HARM_RISK" ->
            {SafetyResponse("self_harm_message",
                <<"crisis", "mental_health">>, FALSE, TRUE, "HIGH")}
      [] c.category = "HARM_TO_OTHERS_RISK" ->
            {SafetyResponse("harm_others_message",
                <<"security", "hr_ethics", "mental_health">>,
                FALSE, TRUE, "CRITICAL")}
      [] c.category = "IMMINENT_DANGER" ->
            {SafetyResponse("imminent_danger_message",
                <<"crisis", "security">>, FALSE, TRUE, "CRITICAL_IMMEDIATE")}
      [] OTHER ->
            {SafetyResponse("", <<>>, TRUE, FALSE, "null")}

\* ------------------------------------------------ infrastructure guard

\* check_question counts the patterns matched; confidence is
\* min(count * 0.3, 1.0), kept in hundredths, and the threshold is 0.3.
InfrastructureMatches(message) ==
    IF "infrastructure" \in message THEN 1 ELSE 0

ShouldBlock(message) ==
    LET n == InfrastructureMatches(message)
        confidence == IF n * 30 < 100 THEN n * 30 ELSE 100
    IN  n > 0 /\ confidence >= 30

\* ------------------------------------------------ response safety filter

\* Most unsafe-content categories one generated answer matches.
MaxAnswerViolations == 2

Words == {"return", "policy"}

ViolationKinds ==
    {"malicious_intent", "profanity", "violence", "self_harm",
     "hate_speech", "political_unsafe"}

\* A generated answer: the categories whose patterns it matches and its
\* words of four letters or more.
Answers ==
    [matches : {v \in SUBSET ViolationKinds :
                    Cardinality(v) <= MaxAnswerViolations},
     words : SUBSET Words]

RECURSIVE ContextWords(_)
ContextWords(context_docs) ==
    IF context_docs = <<>> THEN {}
    ELSE Head(context_docs) \cup ContextWords(Tail(context_docs))

\* overlap / len(response_words) < 0.2, in integers
CheckHallucination(response_words, context_docs) ==
    IF context_docs = <<>> THEN TRUE
    ELSE IF response_words = {} THEN FALSE
    ELSE 5 * Cardinality(response_words \cap ContextWords(context_docs))
             < Cardinality(response_words)

\* The moderate violations decided before hallucination.
DetermineAction_ModerateFirst(violations) ==
    IF violations = {}
        THEN [action |-> "PASS", confidence |-> 100, safe_response |-> "none"]
    ELSE IF violations \cap {"self_harm", "violence", "malicious_intent"} # {}
        THEN [action |-> "BLOCK", confidence |-> 0,
              safe_response |-> "default_safe_response"]
    ELSE IF violations \cap {"profanity", "hate_speech", "political_unsafe"} # {}
        THEN [action |-> "MODIFY", confidence |-> 70,
              safe_response |-> "cleaned_response"]
    ELSE IF "hallucination" \in violations
        THEN [action |-> "BLOCK", confidence |-> 0,
              safe_response |-> "not_enough_verified_information"]
    ELSE [action |-> "PASS", confidence |-> 90, safe_response |-> "none"]

DetermineAction(violations) ==
    IF violations = {}
        THEN [action |-> "PASS", confidence |-> 100, safe_response |-> "none"]
    ELSE IF violations \cap {"self_harm", "violence", "malicious_intent"} # {}
        THEN [action |-> "BLOCK", confidence |-> 0,
              safe_response |-> "default_safe_response"]
    ELSE IF "hallucination" \in violations
        THEN [action |-> "BLOCK", confidence |-> 0,
              safe_response |-> "not_enough_verified_information"]
    ELSE IF violations \cap {"profanity", "hate_speech", "political_unsafe"} # {}
        THEN [action |-> "MODIFY", confidence |-> 70,
              safe_response |-> "cleaned_response"]
    ELSE [action |-> "PASS", confidence |-> 90, safe_response |-> "none"]

CheckResponseSafety(response, context_docs) ==
    DetermineAction(
        (IF CheckHallucination(response.words, context_docs)
         THEN {"hallucination"} ELSE {})
        \cup response.matches)

\* Most context snippets handed to the response filter.
MaxContextDocs == 2

ContextDocLists == UNION {[1..n -> SUBSET Words] : n \in 0..MaxContextDocs}

\* The keys of the dict RAGOrchestrator.ask returns.
RagResponseKeys == {"answer", "citations"}

\* ------------------------------------------------------------------ state

VARIABLES
    ingPc,          \* where the /ingest request stands
    ingDoc,         \* the uploaded document's text
    ingResult,      \* verification_result, NoResult before verify_document
    ingStatus,      \* what the request returned: blocked, indexed, error
    vector_store,   \* entries of rag.vector_store
    bm25_store      \* entries of rag.bm25

ingestVars == <<ingPc, ingDoc, ingResult, ingStatus, vector_store, bm25_store>>

NoResult == [none |-> TRUE]

InitIngest ==
    /\ ingPc = "idle"
    /\ ingDoc = <<>>
    /\ ingResult = NoResult
    /\ ingStatus = "none"
    /\ vector_store = {}
    /\ bm25_store = {}

\* ------------------------------------------------ reporting service: data

\* Report ids uuid4 can still draw.
MaxReports == 2

\* Calls of the reporting service started in one behaviour.
MaxCalls == 3

ReportIds == 1..MaxReports

\* Threads (or processes) calling the service at the same time.
Callers == {"caller_a", "caller_b"}

Accessors == {"hr_1"}

\* accessor_id is any string the caller passes; this one is no HR or
\* security reviewer.
OtherAccessors == {"associate_7"}

MaxTicks == 1

\* Days that pass between two readings of datetime.utcnow().
DaysPassing == {31, 366}

\* No document under that id in the Firestore collection.
NoDoc == [exists |-> FALSE]

NullPriority == "null"

\* What submit_report is called with.  The severity strings are those of
\* the retention table and the lower-case enum value the /ask flow passes.
SubmitInputs ==
    {[user_id |-> "u1", message |-> "m1", severity |-> "LOW",
      requires_escalation |-> FALSE, escalation_priority |-> NullPriority],
     [user_id |-> "u1", message |-> "m1", severity |-> "MEDIUM",
      requires_escalation |-> TRUE, escalation_priority |-> "MEDIUM"],
     [user_id |-> "u2", message |-> "m2", severity |-> "CRITICAL",
      requires_escalation |-> TRUE,
      escalation_priority |-> "CRITICAL_IMMEDIATE"],
     [user_id |-> "u2", message |-> "m2", severity |-> "critical",
      requires_escalation |-> TRUE,
      escalation_priority |-> "CRITICAL_IMMEDIATE"]}

USER_ID_SALT == "default_salt_change_in_prod"

\* With USER_ID_SALT unset the placeholder is used as it is: neither
\* __init__ nor _anonymize_user_id raises, warns or records anything.
PlaceholderSaltSignalled == FALSE

\* sha256(user_id + salt): one-way, so only what went in is kept
AnonymizeUserId(user_id) == [sha256_of |-> user_id, salt |-> USER_ID_SALT]

\* Fernet with the service's key
EncryptMessage(message) == [fernet |-> message, key |-> "service_key"]

DecryptMessage(encrypted) == encrypted.fernet

RetentionPeriod(severity) ==
    CASE severity = "LOW" -> 30
      [] severity = "MEDIUM" -> 90
      [] severity = "HIGH" -> 180
      [] severity = "CRITICAL" -> 365
      [] OTHER -> 90

Topics == {"MEDIUM", "HIGH", "CRITICAL", "CRITICAL_IMMEDIATE"}

\* The ConfidentialReport submit_report builds, as _store_report writes it.
BuildReport(report_id, inp, created) ==
    [exists |-> TRUE,
     report_id |-> report_id,
     timestamp |-> created,
     expiration_date |-> created + RetentionPeriod(inp.severity),
     severity_level |-> inp.severity,
     escalation_priority |->
         IF inp.escalation_priority = NullPriority
         THEN "NONE" ELSE inp.escalation_priority,
     anonymized_user_id |-> AnonymizeUserId(inp.user_id),
     encrypted_message |-> EncryptMessage(inp.message),
     encryption_key_version |-> "v1",
     requires_followup |-> inp.severity \in {"HIGH", "CRITICAL"},
     retention_days |-> RetentionPeriod(inp.severity),
     access_log |-> <<>>]

\* The routing message _route_to_recipients publishes.
RoutingMessage(report) ==
    LET priority == IF report.escalation_priority \in Topics
                    THEN report.escalation_priority ELSE "MEDIUM"
    IN  [report_id |-> report.report_id,
         severity |-> report.severity_level,
         priority |-> priority,
         requires_immediate_action |-> priority = "CRITICAL_IMMEDIATE"]

AuditEntry(action, report_id, user_id) ==
    [action |-> action, report_id |-> report_id, user_id |-> user_id]

VARIABLES
    reports,        \* the safety_incidents_confidential collection, by id
    audit_log,      \* the safety_audit_log collection, in order of writing
    published,      \* routing messages Pub/Sub accepted
    call,           \* each caller's call in flight: operation, place, locals
    started,        \* calls of the service's methods started so far
    submitState,    \* per report id: unused, running, returned, raised
    getsReturned,   \* per report id: get_report calls that returned it
    now,            \* what datetime.utcnow() reads, in days
    ticks,          \* times the clock has advanced
    cleanup         \* the cleanup_expired_reports run: place and locals

reportVars ==
    <<reports, audit_log, published, call, started, submitState, getsReturned,
      now, ticks, cleanup>>

\* No cleanup_expired_reports run in progress.
NoCleanup == [pc |-> "idle"]

IdleCall == [op |-> "none", pc |-> "idle"]

\* A call that returned or raised: its locals are gone.
EndedCall(op, how, rid) == [op |-> op, pc |-> how, rid |-> rid]

InitReport ==
    /\ reports = [r \in ReportIds |-> NoDoc]
    /\ audit_log = <<>>
    /\ published = {}
    /\ call = [c \in Callers |-> IdleCall]
    /\ started = 0
    /\ submitState = [r \in ReportIds |-> "unused"]
    /\ getsReturned = [r \in ReportIds |-> 0]
    /\ now = 0
    /\ ticks = 0
    /\ cleanup = NoCleanup

VARIABLES
    askPc,           \* where the /ask request stands
    askMsg,          \* query.question
    classification,  \* what classify returned, NoneFound before it has
    safety_response, \* what generate_response returned, NoneFound before
    rag_response,    \* what rag.ask returned, NoneFound before
    report_id,       \* the id submit_report returned to /ask, "none" before
    askReturn,       \* how the request ended and what it answered
    llmOutcome,      \* what generate_content did: none, answered, raised
    cited_chunks     \* the snippets rag.ask put in the prompt, <<>> before

askVars ==
    <<askPc, askMsg, classification, safety_response, rag_response,
      report_id, askReturn, llmOutcome, cited_chunks>>

NotReturned == [kind |-> "none"]

InitAsk ==
    /\ askPc = "idle"
    /\ askMsg = {}
    /\ classification = NoneFound
    /\ safety_response = NoneFound
    /\ rag_response = NoneFound
    /\ report_id = "none"
    /\ askReturn = NotReturned
    /\ llmOutcome = "none"
    /\ cited_chunks = <<>>

VARIABLES
    unitCall,    \* the last direct call of a component: its name, arguments
    unitResult,  \* what that call returned
    unitPrev     \* the call before it, when that was generate_response

unitVars == <<unitCall, unitResult, unitPrev>>

NoCall == [op |-> "none"]

NoPrev == [none |-> TRUE]

InitUnit ==
    /\ unitCall = NoCall
    /\ unitResult = NoneFound
    /\ unitPrev = NoPrev

\* ------------------------------------------------------------ /ingest flow

\* The metadata each chunk is stored with.
ChunkEntry(doc) == [source |-> doc, verified |-> TRUE]

\* The upload is read and saved under data/raw.
IngestReceive(doc) ==
    /\ ingPc = "idle"
    /\ ingPc' = "saved"
    /\ ingDoc' = doc
    /\ ingResult' = NoResult
    /\ ingStatus' = "none"
    /\ UNCHANGED <<vector_store, bm25_store>>
    /\ UNCHANGED <<reportVars, askVars, unitVars>>

\* STEP 1: text extraction.  DocumentProcessor swallows its own errors and
\* leaves document_dict empty, so taking element [0] raises.
IngestExtract(ok) ==
    /\ ingPc = "saved"
    /\ IF ok
       THEN ingPc' = "extracted" /\ UNCHANGED ingStatus
       ELSE ingPc' = "returned" /\ ingStatus' = "error"
    /\ UNCHANGED <<ingDoc, ingResult, vector_store, bm25_store>>
    /\ UNCHANGED <<reportVars, askVars, unitVars>>

\* STEP 2: the security gate's verdict.
IngestVerify ==
    /\ ingPc = "extracted"
    /\ ingResult' = VerifyDocument(ingDoc)
    /\ ingPc' = "verified"
    /\ UNCHANGED <<ingDoc, ingStatus, vector_store, bm25_store>>
    /\ UNCHANGED <<reportVars, askVars, unitVars>>

\* The gate left out: every verified document goes on to be chunked.
IngestionBlocked_Ungated(result) == FALSE

\* `if not verification_result.allow_ingestion: return {"status": "blocked"}`
IngestionBlocked(result) == ~ result.allow_ingestion

\* STEP 3: a blocked document returns here.
IngestGate ==
    /\ ingPc = "verified"
    /\ IF IngestionBlocked(ingResult)
       THEN ingPc' = "returned" /\ ingStatus' = "blocked"
       ELSE ingPc' = "allowed" /\ UNCHANGED ingStatus
    /\ UNCHANGED <<ingDoc, ingResult, vector_store, bm25_store>>
    /\ UNCHANGED <<reportVars, askVars, unitVars>>

\* STEP 5: chunking (the semantic chunker embeds sentences and may raise).
IngestChunk(ok) ==
    /\ ingPc = "allowed"
    /\ IF ok
       THEN ingPc' = "chunked" /\ UNCHANGED ingStatus
       ELSE ingPc' = "returned" /\ ingStatus' = "error"
    /\ UNCHANGED <<ingDoc, ingResult, vector_store, bm25_store>>
    /\ UNCHANGED <<reportVars, askVars, unitVars>>

IngestEmbed(ok) ==
    /\ ingPc = "chunked"
    /\ IF ok
       THEN ingPc' = "embedded" /\ UNCHANGED ingStatus
       ELSE ingPc' = "returned" /\ ingStatus' = "error"
    /\ UNCHANGED <<ingDoc, ingResult, vector_store, bm25_store>>
    /\ UNCHANGED <<reportVars, askVars, unitVars>>

IngestVectorAdd(ok) ==
    /\ ingPc = "embedded"
    /\ IF ok
       THEN /\ vector_store' = vector_store \cup {ChunkEntry(ingDoc)}
            /\ ingPc' = "vector_added"
            /\ UNCHANGED ingStatus
       ELSE /\ ingPc' = "returned"
            /\ ingStatus' = "error"
            /\ UNCHANGED vector_store
    /\ UNCHANGED <<ingDoc, ingResult, bm25_store>>
    /\ UNCHANGED <<reportVars, askVars, unitVars>>

IngestBm25Add(ok) ==
    /\ ingPc = "vector_added"
    /\ IF ok
       THEN /\ bm25_store' = bm25_store \cup {ChunkEntry(ingDoc)}
            /\ ingStatus' = "indexed"
       ELSE /\ ingStatus' = "error"
            /\ UNCHANGED bm25_store
    /\ ingPc' = "returned"
    /\ UNCHANGED <<ingDoc, ingResult, vector_store>>
    /\ UNCHANGED <<reportVars, askVars, unitVars>>

\* The response is sent and the request's locals are dropped.
IngestRespond ==
    /\ ingPc = "returned"
    /\ ingPc' = "idle"
    /\ ingDoc' = <<>>
    /\ ingResult' = NoResult
    /\ ingStatus' = "none"
    /\ UNCHANGED <<vector_store, bm25_store>>
    /\ UNCHANGED <<reportVars, askVars, unitVars>>

NextIngest ==
    \/ \E doc \in Docs : IngestReceive(doc)
    \/ \E ok \in BOOLEAN : IngestExtract(ok)
    \/ IngestVerify
    \/ IngestGate
    \/ \E ok \in BOOLEAN : IngestChunk(ok)
    \/ \E ok \in BOOLEAN : IngestEmbed(ok)
    \/ \E ok \in BOOLEAN : IngestVectorAdd(ok)
    \/ \E ok \in BOOLEAN : IngestBm25Add(ok)
    \/ IngestRespond

\* ------------------------------------------------------- reporting service

\* uuid4 gives an id no report has had: the model takes the next unused.
FreshReportId ==
    IF \E r \in ReportIds : submitState[r] = "unused"
    THEN CHOOSE r \in ReportIds :
             /\ submitState[r] = "unused"
             /\ \A q \in ReportIds : submitState[q] = "unused" => r <= q
    ELSE 0

CallFree(c) == call[c].pc \in {"idle", "returned", "raised"} /\ started < MaxCalls

\* submit_report up to _store_report: the id, the anonymized user id, the
\* encrypted message and the retention period are the call's own; then
\* doc_ref.set(report_data), whose failure raises.
SubmitStore(c, inp, ok) ==
    /\ CallFree(c)
    /\ FreshReportId \in ReportIds
    /\ started' = started + 1
    /\ LET rid == FreshReportId
           report == BuildReport(rid, inp, now)
       IN  IF ok
           THEN /\ reports' = [reports EXCEPT ![rid] = report]
                /\ call' = [call EXCEPT ![c] =
                       [op |-> "submit", pc |-> "route", rid |-> rid,
                        report |-> report,
                        requires_escalation |-> inp.requires_escalation,
                        publish_failed |-> FALSE]]
                /\ submitState' = [submitState EXCEPT ![rid] = "running"]
           ELSE /\ call' = [call EXCEPT ![c] =
                       EndedCall("submit", "raised", rid)]
                /\ submitState' = [submitState EXCEPT ![rid] = "raised"]
                /\ UNCHANGED reports
    /\ UNCHANGED <<audit_log, published, getsReturned>>
    /\ UNCHANGED <<now, ticks, cleanup, ingestVars, askVars, unitVars>>

\* Routing to every report, asked for or not.
ShouldRoute_Always(requires_escalation) == TRUE

\* `if policy_response.get('requires_escalation', False):`
ShouldRoute(requires_escalation) == requires_escalation

\* A publish error that is not handled where it happens.
PublishErrorCaught_Escapes == FALSE

\* `try: ... future.result() ... except Exception as e: print(...)`
PublishErrorCaught == TRUE

\* _route_to_recipients, only when the policy response requires escalation;
\* a failed publish is caught and printed.
SubmitRoute(c, ok) ==
    /\ call[c].op = "submit" /\ call[c].pc = "route"
    /\ ShouldRoute(call[c].requires_escalation) \/ ok
    /\ IF ShouldRoute(call[c].requires_escalation) /\ ok
       THEN published' = published \cup {RoutingMessage(call[c].report)}
       ELSE UNCHANGED published
    /\ IF ShouldRoute(call[c].requires_escalation) /\ ~ ok
          /\ ~ PublishErrorCaught
       THEN /\ call' = [call EXCEPT ![c] =
                   EndedCall("submit", "raised", call[c].rid)]
            /\ submitState' = [submitState EXCEPT ![call[c].rid] = "raised"]
       ELSE /\ call' = [call EXCEPT
                   ![c].pc = "audit",
                   ![c].publish_failed =
                       ShouldRoute(call[c].requires_escalation) /\ ~ ok]
            /\ UNCHANGED submitState
    /\ UNCHANGED <<reports, audit_log, started, getsReturned>>
    /\ UNCHANGED <<now, ticks, cleanup, ingestVars, askVars, unitVars>>

\* _audit_log('REPORT_CREATED', ...) and the return of the id; the audit
\* write is not guarded, so its failure leaves submit_report by exception.
SubmitAudit(c, ok) ==
    /\ call[c].op = "submit" /\ call[c].pc = "audit"
    /\ IF ok
       THEN /\ audit_log' = Append(audit_log,
                  AuditEntry("REPORT_CREATED", call[c].rid,
                             call[c].report.anonymized_user_id))
            /\ call' = [call EXCEPT ![c] =
                   [op |-> "submit", pc |-> "returned", rid |-> call[c].rid,
                    requires_escalation |-> call[c].requires_escalation,
                    publish_failed |-> call[c].publish_failed]]
            /\ submitState' = [submitState EXCEPT ![call[c].rid] = "returned"]
       ELSE /\ call' = [call EXCEPT ![c] =
                   EndedCall("submit", "raised", call[c].rid)]
            /\ submitState' = [submitState EXCEPT ![call[c].rid] = "raised"]
            /\ UNCHANGED audit_log
    /\ UNCHANGED <<reports, published, started, getsReturned>>
    /\ UNCHANGED <<now, ticks, cleanup, ingestVars, askVars, unitVars>>

\* get_report: the ACCESS_ATTEMPT audit entry.
GetBegin(c, rid, accessor, ok) ==
    /\ CallFree(c)
    /\ started' = started + 1
    /\ IF ok
       THEN /\ audit_log' = Append(audit_log,
                  AuditEntry("ACCESS_ATTEMPT", rid, accessor))
            /\ call' = [call EXCEPT ![c] =
                   [op |-> "get", pc |-> "read", rid |-> rid,
                    accessor |-> accessor]]
       ELSE /\ call' = [call EXCEPT ![c] = EndedCall("get", "raised", rid)]
            /\ UNCHANGED audit_log
    /\ UNCHANGED <<reports, published, submitState, getsReturned>>
    /\ UNCHANGED <<now, ticks, cleanup, ingestVars, askVars, unitVars>>

\* doc_ref.get(): None for a missing document, else the caller's own copy
\* of the document with the message decrypted.
GetRead(c) ==
    /\ call[c].op = "get" /\ call[c].pc = "read"
    /\ IF reports[call[c].rid] = NoDoc
       THEN call' = [call EXCEPT ![c] =
                [op |-> "get", pc |-> "returned", rid |-> call[c].rid,
                 accessor |-> call[c].accessor, result |-> NoDoc]]
       ELSE call' = [call EXCEPT ![c] =
                [op |-> "get", pc |-> "update", rid |-> call[c].rid,
                 accessor |-> call[c].accessor,
                 read_at |-> now,
                 report_data |-> reports[call[c].rid],
                 decrypted_message |->
                     DecryptMessage(reports[call[c].rid].encrypted_message)]]
    /\ UNCHANGED <<reports, audit_log, published, started, submitState,
                   getsReturned>>
    /\ UNCHANGED <<now, ticks, cleanup, ingestVars, askVars, unitVars>>

AccessEntry(accessor, timestamp) ==
    [accessor_id |-> accessor, timestamp |-> timestamp, purpose |-> "review"]

\* report_data['access_log'].append(access_entry);
\* doc_ref.update({'access_log': report_data['access_log']}): the whole list
\* of the caller's copy replaces the stored one.
UpdatedAccessLog(stored, copy, entry) == Append(copy, entry)

GetUpdate(c, ok) ==
    /\ call[c].op = "get" /\ call[c].pc = "update"
    /\ IF ok /\ reports[call[c].rid] # NoDoc
       THEN LET log == UpdatedAccessLog(reports[call[c].rid].access_log,
                                         call[c].report_data.access_log,
                                         AccessEntry(call[c].accessor, now))
            IN  /\ reports' = [reports EXCEPT ![call[c].rid].access_log = log]
                /\ call' = [call EXCEPT ![c].pc = "granted",
                                        ![c].report_data.access_log = log]
       ELSE /\ call' = [call EXCEPT ![c] =
                   EndedCall("get", "raised", call[c].rid)]
            /\ UNCHANGED reports
    /\ UNCHANGED <<audit_log, published, started, submitState, getsReturned>>
    /\ UNCHANGED <<now, ticks, cleanup, ingestVars, askVars, unitVars>>

\* The ACCESS_GRANTED audit entry and the return of the report.
GetAuditGranted(c, ok) ==
    /\ call[c].op = "get" /\ call[c].pc = "granted"
    /\ IF ok
       THEN /\ audit_log' = Append(audit_log,
                  AuditEntry("ACCESS_GRANTED", call[c].rid, call[c].accessor))
            /\ call' = [call EXCEPT ![c].pc = "returned"]
            /\ getsReturned' =
                  [getsReturned EXCEPT ![call[c].rid] = @ + 1]
       ELSE /\ call' = [call EXCEPT ![c] =
                   EndedCall("get", "raised", call[c].rid)]
            /\ UNCHANGED <<audit_log, getsReturned>>
    /\ UNCHANGED <<reports, published, started, submitState>>
    /\ UNCHANGED <<now, ticks, cleanup, ingestVars, askVars, unitVars>>

\* Time passes between two steps of the service.
Tick(d) ==
    /\ ticks < MaxTicks
    /\ now' = now + d
    /\ ticks' = ticks + 1
    /\ UNCHANGED <<reports, audit_log, published, call, started, submitState,
                   getsReturned, cleanup>>
    /\ UNCHANGED <<ingestVars, askVars, unitVars>>

\* A query that selects every stored report.
Expired_Always(report, at) == TRUE

\* `.where('expiration_date', '<', now)`
Expired(report, at) == report.expiration_date < at

\* Lowest id first: the order the query streams its documents in.
NextExpired(todo) == CHOOSE r \in todo : \A q \in todo : r <= q

\* cleanup_expired_reports: `now = datetime.utcnow()` and the query for the
\* expired documents; a failed query raises.
CleanupQuery(ok) ==
    /\ cleanup.pc \in {"idle", "done", "raised"}
    /\ started < MaxCalls
    /\ started' = started + 1
    /\ IF ok
       THEN cleanup' =
                [pc |-> "loop", now |-> now,
                 log_start |-> Len(audit_log),
                 todo |-> {r \in ReportIds :
                              /\ reports[r] # NoDoc
                              /\ Expired(reports[r], now)},
                 deleted |-> {}]
       ELSE cleanup' = [pc |-> "raised"]
    /\ UNCHANGED <<reports, audit_log, published, call, submitState,
                   getsReturned, now, ticks>>
    /\ UNCHANGED <<ingestVars, askVars, unitVars>>

\* `self._audit_log('AUTO_DELETED_EXPIRED', doc.id, 'system_cleanup')` for
\* the next streamed document; the write is not guarded.
CleanupAudit(ok) ==
    /\ cleanup.pc = "loop" /\ cleanup.todo # {}
    /\ IF ok
       THEN /\ audit_log' = Append(audit_log,
                  AuditEntry("AUTO_DELETED_EXPIRED",
                             NextExpired(cleanup.todo), "system_cleanup"))
            /\ cleanup' = [cleanup EXCEPT !.pc = "delete"]
       ELSE /\ cleanup' = [pc |-> "raised"]
            /\ UNCHANGED audit_log
    /\ UNCHANGED <<reports, published, call, started, submitState,
                   getsReturned, now, ticks>>
    /\ UNCHANGED <<ingestVars, askVars, unitVars>>

\* `doc.reference.delete()` and `deleted_count += 1`
CleanupDelete(ok) ==
    /\ cleanup.pc = "delete"
    /\ IF ok
       THEN LET r == NextExpired(cleanup.todo)
            IN  /\ reports' = [reports EXCEPT ![r] = NoDoc]
                /\ cleanup' = [cleanup EXCEPT
                       !.pc = "loop",
                       !.todo = @ \ {r},
                       !.deleted = @ \cup {r}]
       ELSE /\ cleanup' = [pc |-> "raised"]
            /\ UNCHANGED reports
    /\ UNCHANGED <<audit_log, published, call, started, submitState,
                   getsReturned, now, ticks>>
    /\ UNCHANGED <<ingestVars, askVars, unitVars>>

\* `return deleted_count` once the stream is exhausted.
CleanupReturn ==
    /\ cleanup.pc = "loop" /\ cleanup.todo = {}
    /\ cleanup' = [cleanup EXCEPT !.pc = "done"]
    /\ UNCHANGED <<reports, audit_log, published, call, started, submitState,
                   getsReturned, now, ticks>>
    /\ UNCHANGED <<ingestVars, askVars, unitVars>>

NextReport ==
    \/ \E c \in Callers, inp \in SubmitInputs, ok \in BOOLEAN :
           SubmitStore(c, inp, ok)
    \/ \E c \in Callers, ok \in BOOLEAN : SubmitRoute(c, ok)
    \/ \E c \in Callers, ok \in BOOLEAN : SubmitAudit(c, ok)
    \/ \E c \in Callers, rid \in ReportIds, a \in Accessors, ok \in BOOLEAN :
           GetBegin(c, rid, a, ok)
    \/ \E c \in Callers : GetRead(c)
    \/ \E c \in Callers, ok \in BOOLEAN : GetUpdate(c, ok)
    \/ \E c \in Callers, ok \in BOOLEAN : GetAuditGranted(c, ok)

\* The reporting service read by reviewers and by others, concurrently.
NextAccess ==
    \/ \E c \in Callers, inp \in SubmitInputs, ok \in BOOLEAN :
           SubmitStore(c, inp, ok)
    \/ \E c \in Callers, ok \in BOOLEAN : SubmitRoute(c, ok)
    \/ \E c \in Callers, ok \in BOOLEAN : SubmitAudit(c, ok)
    \/ \E c \in Callers, rid \in ReportIds,
          a \in Accessors \cup OtherAccessors, ok \in BOOLEAN :
           GetBegin(c, rid, a, ok)
    \/ \E c \in Callers : GetRead(c)
    \/ \E c \in Callers, ok \in BOOLEAN : GetUpdate(c, ok)
    \/ \E c \in Callers, ok \in BOOLEAN : GetAuditGranted(c, ok)

\* The caller whose calls follow one another while the cleanup job runs.
RetentionCallers == {"caller_a"}

\* Reports of the shortest and of the longest retention.
RetentionInputs ==
    {inp \in SubmitInputs : inp.severity \in {"LOW", "CRITICAL"}}

\* The reporting service over time: reports are submitted and read while
\* days pass and the cleanup job runs.
NextRetention ==
    \/ \E c \in RetentionCallers, inp \in RetentionInputs, ok \in BOOLEAN :
           SubmitStore(c, inp, ok)
    \/ \E c \in RetentionCallers, ok \in BOOLEAN : SubmitRoute(c, ok)
    \/ \E c \in RetentionCallers, ok \in BOOLEAN : SubmitAudit(c, ok)
    \/ \E c \in RetentionCallers, rid \in ReportIds, a \in Accessors,
          ok \in BOOLEAN :
           GetBegin(c, rid, a, ok)
    \/ \E c \in RetentionCallers : GetRead(c)
    \/ \E c \in RetentionCallers, ok \in BOOLEAN : GetUpdate(c, ok)
    \/ \E c \in RetentionCallers, ok \in BOOLEAN : GetAuditGranted(c, ok)
    \/ \E d \in DaysPassing : Tick(d)
    \/ \E ok \in BOOLEAN : CleanupQuery(ok)
    \/ \E ok \in BOOLEAN : CleanupAudit(ok)
    \/ \E ok \in BOOLEAN : CleanupDelete(ok)
    \/ CleanupReturn

\* --------------------------------------------------------------- /ask flow

\* STEP 0: the request arrives and its language is detected.
AskReceive(msg) ==
    /\ askPc = "idle"
    /\ askPc' = "infra_check"
    /\ askMsg' = msg
    /\ UNCHANGED <<classification, safety_response, rag_response, report_id,
                   askReturn>>
    /\ UNCHANGED <<llmOutcome, cited_chunks, ingestVars, reportVars, unitVars>>

\* STEP 1: a question the infrastructure guard blocks is answered with the
\* standard response, labelled safe_operational, and nothing else runs.
AskInfraCheck ==
    /\ askPc = "infra_check"
    /\ IF ShouldBlock(askMsg)
       THEN /\ askPc' = "ended"
            /\ askReturn' = [kind |-> "infrastructure",
                             answer |-> "standard_response",
                             safety_classification |-> "safe_operational",
                             is_safety_response |-> FALSE]
       ELSE /\ askPc' = "classify"
            /\ UNCHANGED askReturn
    /\ UNCHANGED <<askMsg, classification, safety_response, rag_response,
                   report_id>>
    /\ UNCHANGED <<llmOutcome, cited_chunks, ingestVars, reportVars, unitVars>>

\* safety_classifier.classify: the five pattern checks in order, then the
\* call of the semantic model when the message holds an ambiguous phrase,
\* else the safe default.
AskClassify ==
    /\ askPc = "classify"
    /\ IF PatternClassify(askMsg) # NoneFound
       THEN /\ classification' = PatternClassify(askMsg)
            /\ askPc' = "classified"
       ELSE IF use_llm_classification /\ NeedsSemanticAnalysis(askMsg)
       THEN /\ askPc' = "llm_wait"
            /\ UNCHANGED classification
       ELSE /\ classification' = SafeDefault
            /\ askPc' = "classified"
    /\ UNCHANGED <<askMsg, safety_response, rag_response, report_id, askReturn>>
    /\ UNCHANGED <<llmOutcome, cited_chunks, ingestVars, reportVars, unitVars>>

\* An except branch that fails open.
LlmFailureResult_FailOpen(error) == LlmInconclusive

\* What the except branch of _llm_classify returns.
LlmFailureResult(error) == LlmErrorClassification

\* model.generate_content(...) answers; _llm_classify parses the text and
\* classify returns.
LlmAnswer(reply) ==
    /\ askPc = "llm_wait"
    /\ classification' = AfterLlmCheck(LlmParse(reply))
    /\ askPc' = "classified"
    /\ UNCHANGED <<askMsg, safety_response, rag_response, report_id, askReturn>>
    /\ llmOutcome' = "answered"
    /\ UNCHANGED <<cited_chunks, ingestVars, reportVars, unitVars>>

\* model.generate_content(...) (or response.text) raises: a service error,
\* or the client's own deadline error.
LlmRaise(error) ==
    /\ askPc = "llm_wait"
    /\ classification' = AfterLlmCheck(LlmFailureResult(error))
    /\ askPc' = "classified"
    /\ UNCHANGED <<askMsg, safety_response, rag_response, report_id, askReturn>>
    /\ llmOutcome' = "raised"
    /\ UNCHANGED <<cited_chunks, ingestVars, reportVars, unitVars>>

\* `if classification.category != SafetyCategory.SAFE_OPERATIONAL`
IsSafetyConcern(c) == c.category # "SAFE_OPERATIONAL"

\* STEP 2: the policy response for anything but SAFE_OPERATIONAL.
AskPolicy ==
    /\ askPc = "classified"
    /\ IF IsSafetyConcern(classification)
       THEN /\ \E r \in GenerateResponse(classification) : safety_response' = r
            /\ askPc' = "escalate"
       ELSE /\ askPc' = "rag"
            /\ UNCHANGED safety_response
    /\ UNCHANGED <<askMsg, classification, rag_response, report_id, askReturn>>
    /\ UNCHANGED <<llmOutcome, cited_chunks, ingestVars, reportVars, unitVars>>

AttributeError(attribute) ==
    [kind |-> "exception", exception |-> "AttributeError",
     attribute |-> attribute]

\* STEP 3: the arguments of submit_report are evaluated first, and
\* safety_response.recipients is no field of SafetyResponse; were it one,
\* submit_report would run (its steps are the reporting service's) and an
\* exception from it would leave ask_question, which guards nothing here.
AskEscalate ==
    /\ askPc = "escalate"
    /\ IF safety_response.requires_escalation
       THEN IF "recipients" \in SafetyResponseFields
            THEN \E ok \in BOOLEAN :
                    IF ok
                    THEN /\ report_id' = "SAFE-id"
                         /\ askPc' = "respond"
                         /\ UNCHANGED askReturn
                    ELSE /\ askPc' = "ended"
                         /\ askReturn' = [kind |-> "exception",
                                exception |-> "submit_report"]
                         /\ UNCHANGED report_id
            ELSE /\ askPc' = "ended"
                 /\ askReturn' = AttributeError("recipients")
                 /\ UNCHANGED report_id
       ELSE /\ askPc' = "respond"
            /\ UNCHANGED <<report_id, askReturn>>
    /\ UNCHANGED <<askMsg, classification, safety_response, rag_response>>
    /\ UNCHANGED <<llmOutcome, cited_chunks, ingestVars, reportVars, unitVars>>

\* The safety response is returned instead of a RAG answer; the dict is
\* built from safety_response.support_resources, no field of SafetyResponse.
AskReturnSafety ==
    /\ askPc = "respond"
    /\ askPc' = "ended"
    /\ IF "support_resources" \in SafetyResponseFields
       THEN askReturn' = [kind |-> "safety",
                          answer |-> safety_response.message,
                          report_id |-> report_id,
                          safety_classification |-> classification.category,
                          allow_continuation |->
                              safety_response.allow_continuation,
                          is_safety_response |-> TRUE]
       ELSE askReturn' = AttributeError("support_resources")
    /\ UNCHANGED <<askMsg, classification, safety_response, rag_response,
                   report_id>>
    /\ UNCHANGED <<llmOutcome, cited_chunks, ingestVars, reportVars, unitVars>>

\* STEP 4: rag.ask: retrieval, reranking and generation; any of them may
\* raise.
AskRag(answer, chunks, ok) ==
    /\ askPc = "rag"
    /\ IF ok
       THEN /\ rag_response' = [answer |-> answer]
            /\ cited_chunks' = chunks
            /\ askPc' = "filter"
            /\ UNCHANGED askReturn
       ELSE /\ askPc' = "ended"
            /\ askReturn' = [kind |-> "exception", exception |-> "rag.ask"]
            /\ UNCHANGED <<rag_response, cited_chunks>>
    /\ UNCHANGED <<askMsg, classification, safety_response, report_id>>
    /\ UNCHANGED <<llmOutcome, ingestVars, reportVars, unitVars>>

\* rag_response.get("context", []): the grounding snippets handed to the
\* response filter.
ContextDocs(response) ==
    IF "context" \in RagResponseKeys THEN response.context ELSE <<>>

\* STEPS 5 and 6: the response filter and its action.
AskFilter ==
    /\ askPc = "filter"
    /\ LET safety_check ==
               CheckResponseSafety(rag_response.answer,
                                   ContextDocs(rag_response))
       IN  askReturn' =
               [kind |-> "rag",
                action |-> safety_check.action,
                answer |-> IF safety_check.action = "BLOCK"
                               THEN "insufficient_info"
                           ELSE IF safety_check.action = "MODIFY"
                               THEN safety_check.safe_response
                           ELSE "generated_answer",
                safety_classification |-> "safe_operational",
                is_safety_response |-> FALSE]
    /\ askPc' = "ended"
    /\ UNCHANGED <<askMsg, classification, safety_response, rag_response,
                   report_id>>
    /\ UNCHANGED <<llmOutcome, cited_chunks, ingestVars, reportVars, unitVars>>

\* The response (or the error) is sent; the request's locals are dropped.
AskRespond ==
    /\ askPc = "ended"
    /\ askPc' = "idle"
    /\ askMsg' = {}
    /\ classification' = NoneFound
    /\ safety_response' = NoneFound
    /\ rag_response' = NoneFound
    /\ report_id' = "none"
    /\ askReturn' = NotReturned
    /\ llmOutcome' = "none"
    /\ cited_chunks' = <<>>
    /\ UNCHANGED <<ingestVars, reportVars, unitVars>>

LlmErrors == {"service_error", "deadline_exceeded"}

\* The steps ask_question takes on its own.
AskProgramStep ==
    \/ AskInfraCheck
    \/ AskClassify
    \/ AskPolicy
    \/ AskEscalate
    \/ AskReturnSafety
    \/ AskFilter
    \/ AskRespond

NextAsk ==
    \/ \E msg \in Messages : AskReceive(msg)
    \/ AskInfraCheck
    \/ AskClassify
    \/ \E reply \in LlmReplies : LlmAnswer(reply)
    \/ \E error \in LlmErrors : LlmRaise(error)
    \/ AskPolicy
    \/ AskEscalate
    \/ AskReturnSafety
    \/ \E answer \in Answers, chunks \in ContextDocLists, ok \in BOOLEAN :
           AskRag(answer, chunks, ok)
    \/ AskFilter
    \/ AskRespond

\* ------------------------------------------- components called directly

\* ESCALATION_PRIORITY_MAP of the safety configuration; a pair it does not
\* list has no priority.
ESCALATION_PRIORITY_MAP(category, severity) ==
    CASE category = "SELF_HARM_RISK" /\ severity = "CRITICAL"
            -> "CRITICAL_IMMEDIATE"
      [] category = "SELF_HARM_RISK" /\ severity = "HIGH" -> "HIGH"
      [] category = "SELF_HARM_RISK" /\ severity = "MEDIUM" -> "MEDIUM"
      [] category = "HARM_TO_OTHERS_RISK" /\ severity = "CRITICAL"
            -> "CRITICAL_IMMEDIATE"
      [] category = "HARM_TO_OTHERS_RISK" /\ severity = "HIGH"
            -> "CRITICAL_IMMEDIATE"
      [] category = "HARM_TO_OTHERS_RISK" /\ severity = "MEDIUM" -> "HIGH"
      [] category = "EMOTIONAL_DISTRESS" /\ severity = "HIGH" -> "HIGH"
      [] category = "EMOTIONAL_DISTRESS" /\ severity = "MEDIUM" -> "MEDIUM"
      [] category = "EMOTIONAL_DISTRESS" /\ severity = "LOW" -> "MEDIUM"
      [] category = "IMMINENT_DANGER" /\ severity = "CRITICAL"
            -> "CRITICAL_IMMEDIATE"
      [] OTHER -> "null"

SafetyCategories ==
    {"SAFE_OPERATIONAL", "PROFANITY_ONLY", "EMOTIONAL_DISTRESS",
     "SELF_HARM_RISK", "HARM_TO_OTHERS_RISK", "IMMINENT_DANGER"}

SeverityLevels == {"LOW", "MEDIUM", "HIGH", "CRITICAL"}

\* The classifications generate_response can be handed.
Classifications ==
    {SafetyClassification(cat, sev, 90, {}, esc, "Test case") :
        cat \in SafetyCategories, sev \in SeverityLevels, esc \in BOOLEAN}

\* What generate_content does when classify calls it: nothing (it is not
\* called), an answer, or an exception.
NoLlm == [kind |-> "not_called"]

LlmOutcomes ==
    {[kind |-> "reply", reply |-> r] : r \in LlmReplies}
        \cup {[kind |-> "raise", error |-> e] : e \in LlmErrors}

\* classify does call _llm_classify for the message.
ConsultsLlm(message) ==
    /\ PatternClassify(message) = NoneFound
    /\ use_llm_classification
    /\ NeedsSemanticAnalysis(message)

\* classify, start to end, given what the semantic model does.
Classify(message, llm) ==
    IF PatternClassify(message) # NoneFound
        THEN PatternClassify(message)
    ELSE IF use_llm_classification /\ NeedsSemanticAnalysis(message)
        THEN AfterLlmCheck(IF llm.kind = "raise"
                               THEN LlmFailureResult(llm.error)
                               ELSE LlmParse(llm.reply))
    ELSE SafeDefault

\* safety_classifier.classify(message)
UnitClassify(message, llm) ==
    /\ unitCall = NoCall
    /\ IF ConsultsLlm(message) THEN llm \in LlmOutcomes ELSE llm = NoLlm
    /\ unitCall' = [op |-> "classify", message |-> message, llm |-> llm]
    /\ unitResult' = Classify(message, llm)
    /\ UNCHANGED <<unitPrev, ingestVars, reportVars, askVars>>

\* safety_policy.generate_response(classification)
UnitGenerateResponse(c) ==
    /\ unitCall = NoCall
    /\ unitCall' = [op |-> "generate_response", classification |-> c]
    /\ \E r \in GenerateResponse(c) : unitResult' = r
    /\ UNCHANGED <<unitPrev, ingestVars, reportVars, askVars>>

\* response_filter.check_response_safety(response, context_docs, question)
UnitCheckResponseSafety(response, context_docs) ==
    /\ unitCall = NoCall
    /\ unitCall' = [op |-> "check_response_safety", response |-> response,
                    context_docs |-> context_docs]
    /\ unitResult' = CheckResponseSafety(response, context_docs)
    /\ UNCHANGED <<unitPrev, ingestVars, reportVars, askVars>>

\* The caller has taken the result.
UnitDone ==
    /\ unitCall # NoCall
    /\ unitCall' = NoCall
    /\ unitResult' = NoneFound
    /\ unitPrev' = IF unitCall.op = "generate_response"
                       THEN [classification |-> unitCall.classification,
                             result |-> unitResult]
                   ELSE NoPrev
    /\ UNCHANGED <<ingestVars, reportVars, askVars>>

NextUnit ==
    \/ \E message \in Messages, llm \in LlmOutcomes \cup {NoLlm} :
           UnitClassify(message, llm)
    \/ \E c \in Classifications : UnitGenerateResponse(c)
    \/ \E response \in Answers, context_docs \in ContextDocLists :
           UnitCheckResponseSafety(response, context_docs)
    \/ UnitDone

\* -------------------------------------------------------- specifications

vars == <<ingestVars, reportVars, askVars, unitVars>>

Init == InitIngest /\ InitReport /\ InitAsk /\ InitUnit

SpecIngest == Init /\ [][NextIngest]_vars

SpecReport == Init /\ [][NextReport]_vars

SpecAccess == Init /\ [][NextAccess]_vars

SpecRetention == Init /\ [][NextRetention]_vars

SpecAsk == Init /\ [][NextAsk]_vars

SpecUnit == Init /\ [][NextUnit]_vars

\* The steps of ask_question itself are always taken in the end (the
\* server runs the handler to its end); nothing makes the semantic model,
\* the retrieval pipeline or a user act.
FairSpecAsk == SpecAsk /\ WF_vars(AskProgramStep)

\* ------------------------------------------------------- claims: /ingest

\* C1 (as claimed): allow_ingestion is false when the overall severity is
\* HIGH or CRITICAL and true when it is NONE, LOW or MEDIUM.
C1_AllowIngestionBySeverity ==
    ingResult # NoResult =>
        (ingResult.allow_ingestion
            <=> ingResult.overall_severity \in {"NONE", "LOW", "MEDIUM"})

\* C2: chunking, embedding and the writes to the vector store and the BM25
\* index happen only after verify_document returned for the document, and
\* never for a document whose allow_ingestion is false; no blocked document
\* is in either store.
C2_BlockedNeverReachesKnowledgeBase ==
    /\ ingPc \in {"allowed", "chunked", "embedded", "vector_added"}
           => ingResult # NoResult /\ ingResult.allow_ingestion
    /\ ingStatus = "indexed"
           => ingResult # NoResult /\ ingResult.allow_ingestion
    /\ ingPc \in {"saved", "extracted"} => ingResult = NoResult
    /\ \A e \in vector_store \cup bm25_store :
           VerifyDocument(e.source).allow_ingestion
    /\ (ingResult # NoResult /\ ~ ingResult.allow_ingestion)
           => ChunkEntry(ingDoc) \notin (vector_store \cup bm25_store)

\* A document was indexed in both stores, and a later one was blocked.
C2_Witness ==
    /\ ingStatus = "blocked"
    /\ ingResult # NoResult
    /\ ~ ingResult.allow_ingestion
    /\ vector_store # {}
    /\ bm25_store # {}

\* --------------------------------------------------- claims: classification

\* C3: when the semantic model is called and raises (an error, or the
\* client's deadline error), classify returns EMOTIONAL_DISTRESS, MEDIUM,
\* confidence 0.5, requires_escalation true; the request goes on as
\* classified (nothing is raised to the caller) and the result is never
\* SAFE_OPERATIONAL.
C3_LlmFailureFailsClosed ==
    llmOutcome = "raised" =>
        /\ askPc # "llm_wait"
        /\ classification # NoneFound
        /\ classification.category = "EMOTIONAL_DISTRESS"
        /\ classification.severity = "MEDIUM"
        /\ classification.confidence = 50
        /\ classification.requires_escalation
        /\ classification.category # "SAFE_OPERATIONAL"
        /\ ~ (askReturn.kind = "exception"
                /\ askReturn.exception = "classify")

\* The semantic model raised and classify has returned.
C3_Witness ==
    /\ llmOutcome = "raised"
    /\ askPc = "classified"
    /\ "ambiguous" \in askMsg

\* C4 (as claimed): classify always returns, whatever the semantic model
\* does: a request that entered classify leaves it.
C4_ClassifyAlwaysReturns ==
    (askPc = "classify") ~> (askPc = "classified")

\* ------------------------------------------------------------ claims: /ask

\* C5 (as claimed): rag.ask runs only for a message classified
\* SAFE_OPERATIONAL, and whenever the policy response has allow_continuation
\* false the turn ends with the safety response.
C5_PausedTurnEndsWithSafetyResponse ==
    /\ askPc \in {"rag", "filter"}
           => classification # NoneFound
              /\ classification.category = "SAFE_OPERATIONAL"
    /\ rag_response # NoneFound
           => classification # NoneFound
              /\ classification.category = "SAFE_OPERATIONAL"
    /\ (askPc = "ended" /\ safety_response # NoneFound
            /\ ~ safety_response.allow_continuation)
           => askReturn.kind = "safety"
              /\ askReturn.answer = safety_response.message

\* C6 (as claimed): every message ask handles is classified, and nothing is
\* retrieved, generated or answered for it before that.
C6_ClassifiedBeforeAnything ==
    /\ askPc \in {"rag", "filter"} => classification # NoneFound
    /\ rag_response # NoneFound => classification # NoneFound
    /\ askReturn.kind \in {"infrastructure", "safety", "rag"}
           => classification # NoneFound

\* C7 (as claimed): when the classification requires escalation,
\* submit_report has been called before ask returns, and the answer carries
\* the report id.
C7_EscalationReportedBeforeReturn ==
    (askPc = "ended" /\ classification # NoneFound
        /\ classification.requires_escalation)
       => /\ report_id # "none"
          /\ askReturn.kind = "safety"
          /\ askReturn.report_id = report_id

\* C8 (as claimed): when the escalation of an escalated message was not
\* recorded, ask still returns the policy engine's safety message.
C8_SafetyMessageDespiteFailedEscalation ==
    (askPc = "ended" /\ safety_response # NoneFound
        /\ safety_response.requires_escalation /\ report_id = "none")
       => /\ askReturn.kind # "exception"
          /\ askReturn.answer = safety_response.message

\* ------------------------------------------------ claims: reporting service

\* C9 (as claimed): a submit_report that raised leaves no report of that
\* submission in the store.
C9_SubmitReportAtomic ==
    \A r \in ReportIds : submitState[r] = "raised" => reports[r] = NoDoc

\* A get_report call on report r that has not finished.
GetInFlight(r) ==
    \E c \in Callers :
        /\ call[c].op = "get"
        /\ call[c].rid = r
        /\ call[c].pc \in {"read", "update", "granted"}

\* C10 (as claimed): once the get_report calls on a report are over, its
\* persisted access_log has an entry for each call that returned it.
C10_NoAccessLogEntryLost ==
    \A r \in ReportIds :
        (reports[r] # NoDoc /\ ~ GetInFlight(r))
            => Len(reports[r].access_log) >= getsReturned[r]

\* C11 (as claimed): every get_report call that has returned left an
\* ACCESS_ATTEMPT audit entry followed by an ACCESS_GRANTED one, whatever
\* it returned.
C11_EveryGetAuditedTwice ==
    \A c \in Callers :
        (call[c].op = "get" /\ call[c].pc = "returned")
            => \E i, j \in DOMAIN audit_log :
                   /\ i < j
                   /\ audit_log[i] = AuditEntry("ACCESS_ATTEMPT",
                                         call[c].rid, call[c].accessor)
                   /\ audit_log[j] = AuditEntry("ACCESS_GRANTED",
                                         call[c].rid, call[c].accessor)

\* --------------------------------------------------- claims: policy engine

\* The (category, severity) pairs the priority table of C12 names.
C12_TablePairs ==
    ({"SELF_HARM_RISK"} \X {"CRITICAL", "HIGH"})
        \cup ({"HARM_TO_OTHERS_RISK"} \X {"CRITICAL", "HIGH", "MEDIUM"})
        \cup ({"EMOTIONAL_DISTRESS"} \X {"HIGH", "MEDIUM", "LOW"})
        \cup ({"IMMINENT_DANGER"} \X {"CRITICAL"})
        \cup ({"PROFANITY_ONLY", "SAFE_OPERATIONAL"} \X SeverityLevels)

\* C12 (as claimed): generate_response assigns escalation_priority from
\* (category, severity) by the fixed table, and none for PROFANITY_ONLY and
\* SAFE_OPERATIONAL.
C12_PriorityFollowsTable ==
    (unitCall.op = "generate_response"
        /\ <<unitCall.classification.category,
             unitCall.classification.severity>> \in C12_TablePairs)
       => unitResult.escalation_priority =
              ESCALATION_PRIORITY_MAP(unitCall.classification.category,
                                      unitCall.classification.severity)

C14_FirstMatchingCheckWins ==
    unitCall.op = "classify" =>
        LET m == unitCall.message
            imminent == CheckImminentDanger(m) # NoneFound
            harm == CheckHarmToOthers(m) # NoneFound
            self_harm == CheckSelfHarm(m) # NoneFound
            distress == CheckEmotionalDistress(m) # NoneFound
            profanity == CheckProfanity(m) # NoneFound
        IN  /\ imminent => unitResult = CheckImminentDanger(m)
            /\ (~ imminent /\ harm) => unitResult = CheckHarmToOthers(m)
            /\ (~ imminent /\ ~ harm /\ self_harm)
                   => unitResult = CheckSelfHarm(m)
            /\ (~ imminent /\ ~ harm /\ ~ self_harm /\ distress)
                   => unitResult = CheckEmotionalDistress(m)
            /\ (~ imminent /\ ~ harm /\ ~ self_harm /\ ~ distress
                    /\ profanity)
                   => unitResult = CheckProfanity(m)

\* A message with a self-harm phrase and profanity came back SELF_HARM_RISK.
C14_Witness ==
    /\ unitCall.op = "classify"
    /\ unitCall.message \cap SelfHarmPatterns # {}
    /\ "profanity" \in unitCall.message
    /\ unitResult.category = "SELF_HARM_RISK"

C16_ThreatIsHarmToOthers ==
    (unitCall.op = "classify"
        /\ (unitCall.message \cap HarmOthersPatterns # {}
               \/ "going_to_hurt" \in unitCall.message))
       => /\ unitResult.category = "HARM_TO_OTHERS_RISK"
          /\ unitResult.severity \in {"HIGH", "CRITICAL"}

\* -------------------------------------------- claims: document verifier

\* The detection list without its i-th detection.
C17_Without(threats, i) ==
    SubSeq(threats, 1, i - 1) \o SubSeq(threats, i + 1, Len(threats))

\* C17: overall_severity is the maximum severity over threats_detected under
\* NONE < LOW < MEDIUM < HIGH < CRITICAL, it is NONE exactly when
\* threats_detected is empty, and removing a detection never raises it.
C17_OverallSeverityIsMaximum ==
    ingResult # NoResult =>
        LET threats == ingResult.threats_detected
            overall == ingResult.overall_severity
        IN  /\ (overall = "NONE") <=> (threats = <<>>)
            /\ threats # <<>>
                   => \E i \in 1..Len(threats) : threats[i].severity = overall
            /\ \A i \in 1..Len(threats) :
                   /\ SeverityScore(threats[i].severity)
                          <= SeverityScore(overall)
                   /\ SeverityScore(CalculateOverallSeverity(
                                        C17_Without(threats, i)))
                          <= SeverityScore(overall)

\* A document with a MEDIUM and a CRITICAL detection was verified, the
\* lesser one found first.
C17_Witness ==
    /\ ingResult # NoResult
    /\ Len(ingResult.threats_detected) = 2
    /\ ingResult.threats_detected[1].severity = "MEDIUM"
    /\ ingResult.threats_detected[2].severity = "CRITICAL"
    /\ ingResult.overall_severity = "CRITICAL"

\* ------------------------------------------------ claims: response filter

C19_ZeroOverlapIsBlocked ==
    (unitCall.op = "check_response_safety"
        /\ unitCall.response.words
               \cap ContextWords(unitCall.context_docs) = {})
       => unitResult.action = "BLOCK"

\* ------------------------------------ claims: reporting without escalation

\* C20: submit_report called with a policy response whose
\* requires_escalation is false still persists the report and appends the
\* REPORT_CREATED audit entry, and publishes nothing for it.
C20_UnescalatedStoredNotRouted ==
    \A c \in Callers :
        (call[c].op = "submit" /\ call[c].pc \in {"audit", "returned"}
            /\ ~ call[c].requires_escalation)
           => /\ reports[call[c].rid] # NoDoc
              /\ reports[call[c].rid].report_id = call[c].rid
              /\ \A m \in published : m.report_id # call[c].rid
              /\ call[c].pc = "returned"
                     => \E i \in DOMAIN audit_log :
                            audit_log[i] =
                                AuditEntry("REPORT_CREATED", call[c].rid,
                                    reports[call[c].rid].anonymized_user_id)

\* A submission without escalation returned its id while another report
\* had been routed.
C20_Witness ==
    /\ published # {}
    /\ \E c \in Callers :
           /\ call[c].op = "submit"
           /\ call[c].pc = "returned"
           /\ ~ call[c].requires_escalation
           /\ reports[call[c].rid] # NoDoc

\* ------------------------------------- claims: reporting service, continued

\* C21: when publishing the routing message fails, submit_report goes on to
\* its audit entry: the step after a failed publish never raises, the report
\* stays stored, and a call that returned after a failed publish has its
\* REPORT_CREATED entry in the audit log.
C21_PublishFailureKeepsReport ==
    /\ [](\A c \in Callers :
            (/\ call[c].op = "submit"
             /\ call[c].pc \in {"audit", "returned"}
             /\ call[c].publish_failed)
                => /\ reports[call[c].rid] # NoDoc
                   /\ call[c].pc = "returned" =>
                          \E i \in DOMAIN audit_log :
                              audit_log[i] = AuditEntry("REPORT_CREATED",
                                  call[c].rid,
                                  reports[call[c].rid].anonymized_user_id))
    /\ [][\A c \in Callers :
            (/\ call[c].op = "submit"
             /\ call[c].pc = "route"
             /\ call'[c] # call[c])
                => /\ call'[c].pc = "audit"
                   /\ reports'[call[c].rid] # NoDoc]_vars

\* A submit_report call has returned its id although its publish failed.
C21_Witness ==
    \E c \in Callers :
        /\ call[c].op = "submit"
        /\ call[c].pc = "returned"
        /\ call[c].publish_failed
        /\ reports[call[c].rid] # NoDoc

\* The AUTO_DELETED_EXPIRED entries for report r in the audit log log that
\* were written after position start.
C22_DeletionEntries(log, start, r) ==
    {i \in (start + 1)..Len(log) :
        log[i] = AuditEntry("AUTO_DELETED_EXPIRED", r, "system_cleanup")}

\* C22: a report leaves the store only when its creation time plus its
\* retention_days lies before the time the cleanup run read, and then the
\* run has written exactly one deletion audit entry for it; when the run
\* returns, no report that had expired by then is left in the store.
C22_CleanupDeletesExactlyExpired ==
    /\ [](cleanup.pc = "done" =>
            \A r \in ReportIds :
                reports[r] # NoDoc =>
                    ~ (reports[r].timestamp + reports[r].retention_days
                           < cleanup.now))
    /\ [][\A r \in ReportIds :
            (reports[r] # NoDoc /\ reports'[r] = NoDoc)
                => /\ reports[r].timestamp + reports[r].retention_days
                          < cleanup.now
                   /\ Cardinality(C22_DeletionEntries(audit_log',
                          cleanup.log_start, r)) = 1]_vars

\* A cleanup run has returned after deleting an expired report and leaving
\* an unexpired one.
C22_Witness ==
    /\ cleanup.pc = "done"
    /\ cleanup.deleted # {}
    /\ \E r \in ReportIds : reports[r] # NoDoc

\* The severity a string names, whatever its case.
C23_Severity(s) ==
    CASE s \in {"LOW", "low"} -> "LOW"
      [] s \in {"MEDIUM", "medium"} -> "MEDIUM"
      [] s \in {"HIGH", "high"} -> "HIGH"
      [] s \in {"CRITICAL", "critical"} -> "CRITICAL"
      [] OTHER -> "none"

\* The retention table of C23.
C23_Table ==
    [LOW |-> 30, MEDIUM |-> 90, HIGH |-> 180, CRITICAL |-> 365]

\* C23 (as claimed): every stored report has the retention_days the table
\* gives for its severity, the reports submitted with the severity value
\* the /ask flow passes included.
C23_RetentionFollowsTable ==
    \A r \in ReportIds :
        reports[r] # NoDoc
            => /\ C23_Severity(reports[r].severity_level) \in DOMAIN C23_Table
               /\ reports[r].retention_days =
                      C23_Table[C23_Severity(reports[r].severity_level)]

\* C25 (as claimed): get_report hands a report's content only to an
\* authorized accessor.
C25_ContentOnlyToAuthorized ==
    \A c \in Callers :
        (/\ call[c].op = "get"
         /\ call[c].pc = "returned"
         /\ "decrypted_message" \in DOMAIN call[c])
            => call[c].accessor \in Accessors

\* C26 (as claimed): no report is stored with an identifier hashed under
\* the placeholder salt unless that condition was signalled.
C26_PlaceholderSaltSignalled ==
    \A r \in ReportIds :
        (reports[r] # NoDoc /\ reports[r].anonymized_user_id.salt
                                  = "default_salt_change_in_prod")
            => PlaceholderSaltSignalled

\* s is a prefix of t.
C27_IsPrefix(s, t) ==
    /\ Len(s) <= Len(t)
    /\ \A i \in 1..Len(s) : s[i] = t[i]

\* C27 (as claimed): while a report is in the store every field but
\* access_log keeps its value, and access_log only grows at its end.
C27_ReportFrame ==
    [][\A r \in ReportIds :
          (reports[r] # NoDoc /\ reports'[r] # NoDoc)
              => /\ C27_IsPrefix(reports[r].access_log,
                                 reports'[r].access_log)
                 /\ [reports'[r] EXCEPT !.access_log = <<>>]
                        = [reports[r] EXCEPT !.access_log = <<>>]]_vars

\* C30 (as claimed): a get_report call never holds the content of a report
\* whose creation time plus retention_days had passed when it read it.
C30_NoExpiredContent ==
    \A c \in Callers :
        (/\ call[c].op = "get"
         /\ call[c].pc = "returned"
         /\ "decrypted_message" \in DOMAIN call[c])
            => ~ (call[c].report_data.timestamp
                      + call[c].report_data.retention_days < call[c].read_at)

\* --------------------------------------------- claims: components, continued

\* C24 (as claimed): generate_response called again with the classification
\* of the call before it returns the response that call returned.
C24_GenerateResponseDeterministic ==
    (/\ unitCall.op = "generate_response"
     /\ unitPrev # NoPrev
     /\ unitPrev.classification = unitCall.classification)
        => unitResult = unitPrev.result

\* C28 (as claimed): a generated answer with no unsafe match, a fifth or
\* more of whose words are in the snippets rag.ask cited, is returned by
\* /ask with the filter action PASS.
C28_GroundedAnswerPasses ==
    (/\ askPc = "ended"
     /\ askReturn.kind = "rag"
     /\ rag_response.answer.matches = {}
     /\ rag_response.answer.words # {}
     /\ 5 * Cardinality(rag_response.answer.words
                            \cap ContextWords(cited_chunks))
            >= Cardinality(rag_response.answer.words))
        => askReturn.action = "PASS"

\* C29 (as claimed): when the semantic model's reply names no recognised
\* category, classify does not return SAFE_OPERATIONAL.
C29_UnrecognisedReplyNotSafe ==
    (/\ unitCall.op = "classify"
     /\ unitCall.llm.kind = "reply"
     /\ unitCall.llm.reply.category \in {"some_other_word", "no_match"})
        => unitResult.category # "SAFE_OPERATIONAL"

====
